---- MODULE Spec2Model ----
(***************************************************************************)
(* Model of backend/vault.go: the Vault client constructor (vaultClient),  *)
(* the token-renewal goroutine (startTokenRenewer and its helpers) and the *)
(* secret read path (ReadSecret).                                          *)
(*                                                                         *)
(* The remote store, the polling timer and the cancellation context are    *)
(* the environment: every response the store can give is an input drawn    *)
(* with \E, time advances in unit steps, and ctx may be cancelled at any   *)
(* moment.                                                                 *)
(***************************************************************************)
EXTENDS Integers, Sequences, FiniteSets, TLC

VARIABLES
    vc,         \* outcome of vaultClient: "init" (not called), "failed", "ok"
    c,          \* the client struct built by vaultClient, or NoClient
    started,    \* number of startTokenRenewer invocations
    ctor,       \* history: how the steps of vaultClient went, or NoCtor
    pc,         \* position of the renewal goroutine
    exit,       \* why the goroutine left its loop ("" while it has not)
    ctxDone,    \* ctx.Done() is closed
    timerLeft,  \* time left on the pending time.After timer (0: none / fired)
    timerCh,    \* the time.After channel holds a value
    elapsed,    \* history: time units since the pending timer was started
    wake,       \* select case the parked goroutine was woken with
    token,      \* tick-local: the *api.Secret returned by getToken
    ttl,        \* tick-local: the value returned by getTokenTTL
    should,     \* tick-local: what shouldRenewToken returned ("unset" before)
    trace,      \* history: store calls and loop events, in order
    lastRead    \* the ReadSecret invocation whose result the caller holds, or NoRead

vars == <<vc, c, started, ctor, pc, exit, ctxDone, timerLeft, timerCh, elapsed,
          wake, token, ttl, should, trace, lastRead>>

clientVars == <<vc, c, started, ctor>>
loopVars == <<pc, exit, timerLeft, timerCh, elapsed, wake, token, ttl, should>>

-----------------------------------------------------------------------------
(* Bounds of the model *)

\* TTL values the store reports are -1 .. MaxTTL
MaxTTL == 2
\* LookupSelf calls one run of the goroutine may issue
MaxTicks == 2
\* polling periods are 1 .. MaxPeriod time units
MaxPeriod == 2
\* fields of a secret payload
MaxFields == 1

-----------------------------------------------------------------------------
(* Program constants and input domains *)

defaultSecretKey == "data"

NoClient == [nil |-> TRUE]
NoToken == [nil |-> TRUE]
NoTTL == -2
NoRead == [called |-> FALSE]
NoCtor == [called |-> FALSE]

\* cfg.VaultToken, the token vaultClient hands to SetToken
VaultToken == "s.token"

TTLs == -1 .. MaxTTL
Thresholds == 0 .. MaxTTL
Increments == {1, MaxTTL + 1}
Periods == 1 .. MaxPeriod
EngineNames == {"kv1", "kv2", "bogus"}

\* Data["ttl"] of a lookup response: a json.Number holding an integer, a
\* json.Number that is no integer ("1.5"), or a value that is no json.Number
TTLFields == [kind : {"int"}, n : TTLs]
             \cup {[kind |-> "notint", n |-> 0], [kind |-> "notnumber", n |-> 0]}

\* what TokenIsRenewable finds: true, false, or a value it cannot convert
RenewableFields == {"true", "false", "bad"}

Tokens == [nil : {FALSE}, ttlField : TTLFields, renewable : RenewableFields]

\* LookupSelf returns (nil, err), (nil, nil) or (secret, nil)
LookupResponses == {[err |-> TRUE, secret |-> NoToken], [err |-> FALSE, secret |-> NoToken]}
                   \cup [err : {FALSE}, secret : Tokens]

Ev(e, n) == [e |-> e, n |-> n]

\* values of a decoded JSON payload: a string, a number, null (a nil
\* interface), or a nested map
Str(s) == [t |-> "string", v |-> s]
NumV == [t |-> "number", v |-> "7"]
NullV == [t |-> "nil", v |-> ""]
MapV(m) == [t |-> "map", m |-> m]
Scalars == {Str("abc"), NumV, NullV}

Paths == {"secret/a", "secret/b"}
Keys == {"", defaultSecretKey, "password"}
FieldNames == {defaultSecretKey, "password"}

\* a flat key->value payload with at most MaxFields fields
FlatPayloads ==
    UNION {[D -> Scalars] : D \in {S \in SUBSET FieldNames : Cardinality(S) <= MaxFields}}

EmptyMap == [x \in {} |-> NullV]
NilData == [isNil |-> TRUE, m |-> EmptyMap]
MkData(m) == [isNil |-> FALSE, m |-> m]

\* Secret.Data as the store shapes it: absent, flat (KV version 1) or
\* wrapped under "data" (KV version 2)
SecretDatas ==
    {NilData} \cup {MkData(p) : p \in FlatPayloads}
    \cup {MkData([x \in {"data"} |-> MapV(p)]) : p \in FlatPayloads}

NoSecret == [nil |-> TRUE, Data |-> NilData]
Secrets == [nil : {FALSE}, Data : SecretDatas]

\* logical.Read returns (secret, err); secret may be nil with a nil error
ReadResponses ==
    [err : {FALSE}, secret : Secrets \cup {NoSecret}]
    \cup [err : {TRUE}, secret : {NoSecret, [nil |-> FALSE, Data |-> NilData]}]

-----------------------------------------------------------------------------
(* Token helpers *)

\* getTokenTTL: a nil token or a ttl that is no json.Number panics; a
\* json.Number that is no integer returns (-1, err)
getTokenTTL(t) ==
    IF t.nil THEN [panic |-> TRUE, err |-> FALSE, ttl |-> NoTTL]
    ELSE IF t.ttlField.kind = "notnumber" THEN [panic |-> TRUE, err |-> FALSE, ttl |-> NoTTL]
    ELSE IF t.ttlField.kind = "notint" THEN [panic |-> FALSE, err |-> TRUE, ttl |-> -1]
    ELSE [panic |-> FALSE, err |-> FALSE, ttl |-> t.ttlField.n]

shouldRenewTokenAlways(cl, t) == TRUE

shouldRenewTokenLE(cl, t) == t <= cl.maxTokenTTL

shouldRenewToken(cl, t) == t < cl.maxTokenTTL

\* (*api.Secret).TokenIsRenewable
TokenIsRenewable(t) ==
    CASE t.renewable = "true" -> [isRenewable |-> TRUE, err |-> FALSE]
      [] t.renewable = "false" -> [isRenewable |-> FALSE, err |-> FALSE]
      [] OTHER -> [isRenewable |-> FALSE, err |-> TRUE]

renewIncrementFromTTL(cl, t) == t

\* the argument renewToken passes to RenewSelf
renewIncrement(cl, t) == cl.renewTTLIncrement

renewTokenPreCtxAware(t) ==
    IF ctxDone \/ TokenIsRenewable(t).err THEN "checkErr"
    ELSE IF ~TokenIsRenewable(t).isRenewable THEN "notRenewable"
    ELSE "call"

renewTokenPreNoFlagCheck(t) ==
    IF TokenIsRenewable(t).err THEN "checkErr" ELSE "call"

\* renewToken up to its network call: the error it returns without calling
\* the store, or "call" when it goes on to RenewSelf
renewTokenPre(t) ==
    LET r == TokenIsRenewable(t) IN
    IF r.err THEN "checkErr"
    ELSE IF ~r.isRenewable THEN "notRenewable"
    ELSE "call"

-----------------------------------------------------------------------------
Init ==
    /\ vc = "init"
    /\ c = NoClient
    /\ started = 0
    /\ ctor = NoCtor
    /\ pc = "none"
    /\ exit = ""
    /\ ctxDone = FALSE
    /\ timerLeft = 0
    /\ timerCh = FALSE
    /\ elapsed = 0
    /\ wake = "none"
    /\ token = NoToken
    /\ ttl = NoTTL
    /\ should = "unset"
    /\ trace = <<>>
    /\ lastRead = NoRead

\* the host process is alive: a panic in the renewal goroutine ends it
Alive == pc # "panic"

NumLookups == Cardinality({i \in DOMAIN trace : trace[i].e = "lookup"})

-----------------------------------------------------------------------------
(* vaultClient *)

\* newEngine: the engine for a configured name, or an error
newEngine(name) ==
    IF name \in {"kv1", "kv2"} THEN [err |-> FALSE, engine |-> name]
    ELSE [err |-> TRUE, engine |-> "none"]

reachesStartIgnoringEngineErr(newClientOk, healthOk, engineErr) ==
    newClientOk /\ healthOk

\* vaultClient gets past its three early returns
reachesStart(newClientOk, healthOk, engineErr) ==
    newClientOk /\ healthOk /\ ~engineErr

\* vaultClient: api.NewClient, sys.Health and newEngine each may fail and make
\* it return (nil, err); otherwise it builds the client from cfg and starts
\* the renewal goroutine
VaultClient ==
    /\ vc = "init"
    /\ \E newClientOk \in BOOLEAN, healthOk \in BOOLEAN, name \in EngineNames,
          th \in Thresholds, per \in Periods, inc \in Increments :
         /\ ctor' = [called |-> TRUE, newClientOk |-> newClientOk, healthOk |-> healthOk,
                     engineErr |-> newEngine(name).err]
         /\ IF reachesStart(newClientOk, healthOk, newEngine(name).err)
            THEN /\ vc' = "ok"
                 /\ c' = [nil |-> FALSE, vclientToken |-> VaultToken,
                          maxTokenTTL |-> th, tokenPollingPeriod |-> per,
                          renewTTLIncrement |-> inc, engine |-> newEngine(name).engine]
                 /\ started' = started + 1
                 /\ pc' = "top"
            ELSE /\ vc' = "failed"
                 /\ UNCHANGED <<c, started, pc>>
    /\ UNCHANGED <<exit, ctxDone, timerLeft, timerCh, elapsed, wake, token, ttl, should,
                   trace, lastRead>>

-----------------------------------------------------------------------------
(* startTokenRenewer: the goroutine *)

\* the goroutine reaches the select: time.After starts a fresh timer; a closed
\* ctx.Done() is the only ready case, otherwise the goroutine parks. The
\* variables of the previous tick are out of scope.
doneReadyNever(done) == FALSE

\* the Done case of the select is ready when ctx.Done() is closed
doneReady(done) == done

timerDurationOne(cl) == 1

\* the duration handed to time.After
timerDuration(cl) == cl.tokenPollingPeriod

SelectEnter ==
    /\ pc = "top"
    /\ elapsed' = 0
    /\ token' = NoToken
    /\ ttl' = NoTTL
    /\ should' = "unset"
    /\ timerCh' = FALSE
    /\ wake' = "none"
    /\ IF doneReady(ctxDone)
       THEN /\ pc' = "done"
            /\ exit' = "cancelled"
            /\ timerLeft' = 0
            /\ trace' = Append(trace, Ev("shutdown", 0))
       ELSE /\ pc' = "wait"
            /\ timerLeft' = timerDuration(c)
            /\ UNCHANGED <<exit, trace>>
    /\ UNCHANGED <<vc, c, started, ctor, ctxDone, lastRead>>

\* one unit of time passes on the pending timer; at zero it fires and, when
\* the goroutine is parked and not yet woken, wakes it with the timer case
TimeAdvance ==
    /\ Alive
    /\ timerLeft > 0
    /\ timerLeft > 1 \/ NumLookups < MaxTicks
    /\ timerLeft' = timerLeft - 1
    /\ elapsed' = elapsed + 1
    /\ IF timerLeft = 1
       THEN /\ timerCh' = TRUE
            /\ wake' = IF pc = "wait" /\ wake = "none" THEN "timer" ELSE wake
            /\ trace' = Append(trace, Ev("expiry", elapsed + 1))
       ELSE UNCHANGED <<timerCh, wake, trace>>
    /\ UNCHANGED <<vc, c, started, ctor, pc, exit, ctxDone, token, ttl, should, lastRead>>

\* where the goroutine is when ctx is cancelled: 1 parked on an unexpired
\* timer, 2 inside LookupSelf, 3 inside RenewSelf, 0 elsewhere
CancelPoint ==
    IF pc = "wait" /\ wake = "none" THEN 1
    ELSE IF pc = "getToken" THEN 2
    ELSE IF pc = "renewSelf" THEN 3
    ELSE 0

\* the owner of ctx cancels it; a parked goroutine not yet woken is woken
\* with the Done case. The event records where the goroutine was.
Cancel ==
    /\ Alive
    /\ ~ctxDone
    /\ ctxDone' = TRUE
    /\ wake' = IF pc = "wait" /\ wake = "none" THEN "done" ELSE wake
    /\ trace' = Append(trace, Ev("cancel", CancelPoint))
    /\ UNCHANGED <<vc, c, started, ctor, pc, exit, timerLeft, timerCh, elapsed, token, ttl,
                   should, lastRead>>

selectCaseTimerFirst(w, ch, done) == IF ch THEN "timer" ELSE w

\* the case the select runs once the goroutine is scheduled again: the one
\* whose channel became ready first
selectCase(w, ch, done) == w

\* the woken goroutine runs its case: the timer case calls LookupSelf, the
\* Done case returns
SelectResume ==
    /\ pc = "wait"
    /\ wake # "none"
    /\ IF selectCase(wake, timerCh, ctxDone) = "timer"
       THEN /\ pc' = "getToken"
            /\ trace' = Append(trace, Ev("lookup", 0))
            /\ timerCh' = FALSE
            /\ UNCHANGED <<exit, timerLeft>>
       ELSE /\ pc' = "done"
            /\ exit' = "cancelled"
            /\ trace' = Append(trace, Ev("shutdown", 0))
            /\ UNCHANGED <<timerLeft, timerCh>>
    /\ wake' = "none"
    /\ UNCHANGED <<vc, c, started, ctor, ctxDone, elapsed, token, ttl, should, lastRead>>

afterGetTokenErrContinue(err) == IF err THEN "top" ELSE "getTokenTTL"

\* where the tick goes when getToken returned: out of the loop on an error
afterGetToken(err) == IF err THEN "done" ELSE "getTokenTTL"

afterRenewReturnOnError(outcome) == IF outcome = "renewErr" THEN "done" ELSE "top"

afterRenewReturnOnNotRenewable(outcome) == IF outcome = "notRenewable" THEN "done" ELSE "top"

\* where the loop goes after renewToken returned: both branches only log
afterRenew(outcome) == "top"

afterHealthyContinue(cl, t) == "top"

\* where the loop goes when shouldRenewToken is false
afterHealthy(cl, t) == "done"

Bool2Str(b) == IF b THEN "true" ELSE "false"

\* LookupSelf returns; the rest of the tick runs up to the renewal call
GetTokenReturn ==
    /\ pc = "getToken"
    /\ \E resp \in LookupResponses :
        IF afterGetToken(resp.err) # "getTokenTTL"
        THEN /\ pc' = afterGetToken(resp.err)
             /\ exit' = IF afterGetToken(resp.err) = "done" THEN "lookupErr" ELSE exit
             /\ trace' = Append(trace, Ev("lookupErr", 0))
             /\ UNCHANGED <<token, ttl, should>>
        ELSE LET r == getTokenTTL(resp.secret) IN
             /\ token' = resp.secret
             /\ IF r.panic
                THEN /\ pc' = "panic"
                     /\ exit' = "panic"
                     /\ ttl' = NoTTL
                     /\ should' = "unset"
                     /\ trace' = Append(trace, Ev("panic", 0))
                ELSE IF r.err
                THEN /\ pc' = "done"
                     /\ exit' = "ttlErr"
                     /\ ttl' = r.ttl
                     /\ should' = "unset"
                     /\ trace' = Append(trace, Ev("ttlErr", 0))
                ELSE IF shouldRenewToken(c, r.ttl)
                THEN /\ ttl' = r.ttl
                     /\ should' = Bool2Str(shouldRenewToken(c, r.ttl))
                     /\ IF renewTokenPre(resp.secret) = "call"
                        THEN /\ pc' = "renewSelf"
                             /\ exit' = exit
                             /\ trace' = Append(trace, Ev("renew", renewIncrement(c, r.ttl)))
                        ELSE /\ pc' = afterRenew(renewTokenPre(resp.secret))
                             /\ exit' = IF afterRenew(renewTokenPre(resp.secret)) = "done"
                                        THEN renewTokenPre(resp.secret) ELSE exit
                             /\ trace' = Append(trace, Ev(renewTokenPre(resp.secret), 0))
                ELSE /\ ttl' = r.ttl
                     /\ should' = Bool2Str(shouldRenewToken(c, r.ttl))
                     /\ pc' = afterHealthy(c, r.ttl)
                     /\ exit' = IF afterHealthy(c, r.ttl) = "done" THEN "healthy" ELSE exit
                     /\ trace' = Append(trace, Ev("healthy", 0))
    /\ UNCHANGED <<vc, c, started, ctor, ctxDone, timerLeft, timerCh, elapsed, wake,
                   lastRead>>

\* RenewSelf returns; renewToken returns its error or nil to the loop
RenewSelfReturn ==
    /\ pc = "renewSelf"
    /\ \E err \in BOOLEAN :
        LET outcome == IF err THEN "renewErr" ELSE "renewOk" IN
        /\ pc' = afterRenew(outcome)
        /\ exit' = IF afterRenew(outcome) = "done" THEN outcome ELSE exit
        /\ trace' = Append(trace, Ev(outcome, 0))
    /\ UNCHANGED <<vc, c, started, ctor, ctxDone, timerLeft, timerCh, elapsed, wake,
                   token, ttl, should, lastRead>>

-----------------------------------------------------------------------------
(* ReadSecret *)

\* m[k] of a Go map: the zero value (nil) when the key is absent
MapGet(m, k) == IF k \in DOMAIN m THEN m[k] ELSE NullV

\* engine.getData: the flat payload of a response, or nil. KV version 1 returns
\* Data itself, KV version 2 the map under Data["data"]
getData(engine, secret) ==
    IF engine = "kv1" THEN secret.Data
    ELSE IF ~secret.Data.isNil /\ MapGet(secret.Data.m, "data").t = "map"
         THEN MkData(MapGet(secret.Data.m, "data").m)
         ELSE NilData

effectiveKeyRaw(key) == key

\* the key ReadSecret looks up: the default field name for an empty key
effectiveKey(key) == IF key = "" THEN defaultSecretKey ELSE key

NotFound(path, key) == [kind |-> "BackendSecretNotFound", path |-> path, key |-> key]
StoreErr == [kind |-> "store", path |-> "", key |-> ""]
NilErr == [kind |-> "nil", path |-> "", key |-> ""]
Panicked == [kind |-> "panic", path |-> "", key |-> ""]

extractValueOwnErrorKind(secretData, path, key) ==
    LET val == MapGet(secretData.m, key) IN
    IF val.t = "nil" THEN [data |-> "", err |-> [kind |-> "KeyNotFound", path |-> path, key |-> key]]
    ELSE IF val.t = "string" THEN [data |-> val.v, err |-> NilErr]
    ELSE [data |-> "", err |-> Panicked]

extractValueSwallowsMissingKey(secretData, path, key) ==
    LET val == MapGet(secretData.m, key) IN
    IF val.t = "nil" THEN [data |-> "", err |-> NilErr]
    ELSE IF val.t = "string" THEN [data |-> val.v, err |-> NilErr]
    ELSE [data |-> "", err |-> Panicked]

\* the lookup of key in an extracted payload: a nil value is "not found", a
\* value that is no string panics in the type assertion
extractValue(secretData, path, key) ==
    LET val == MapGet(secretData.m, key) IN
    IF val.t = "nil" THEN [data |-> "", err |-> NotFound(path, key)]
    ELSE IF val.t = "string" THEN [data |-> val.v, err |-> NilErr]
    ELSE [data |-> "", err |-> Panicked]

ReadSecretResultResponseFirst(cl, path, key0, resp) ==
    LET key == effectiveKey(key0) IN
    IF resp.secret.nil
    THEN IF resp.err
         THEN [data |-> "", err |-> StoreErr, reads |-> <<path>>, adapter |-> FALSE]
         ELSE [data |-> "", err |-> NotFound(path, key), reads |-> <<path>>, adapter |-> FALSE]
    ELSE LET secretData == getData(cl.engine, resp.secret) IN
         IF secretData.isNil
         THEN [data |-> "", err |-> NotFound(path, key), reads |-> <<path>>, adapter |-> TRUE]
         ELSE [data |-> extractValue(secretData, path, key).data,
               err |-> extractValue(secretData, path, key).err,
               reads |-> <<path>>, adapter |-> TRUE]

\* ReadSecret as a function of its arguments and of what logical.Read
\* returns: the pair it returns, the store reads it issued and whether it
\* invoked the engine adapter
ReadSecretResult(cl, path, key0, resp) ==
    LET key == effectiveKey(key0) IN
    IF resp.err
    THEN [data |-> "", err |-> StoreErr, reads |-> <<path>>, adapter |-> FALSE]
    ELSE IF resp.secret.nil
    THEN [data |-> "", err |-> NotFound(path, key), reads |-> <<path>>, adapter |-> FALSE]
    ELSE LET secretData == getData(cl.engine, resp.secret) IN
         IF secretData.isNil
         THEN [data |-> "", err |-> NotFound(path, key), reads |-> <<path>>, adapter |-> TRUE]
         ELSE [data |-> extractValue(secretData, path, key).data,
               err |-> extractValue(secretData, path, key).err,
               reads |-> <<path>>, adapter |-> TRUE]

\* a caller invokes ReadSecret(path, key) and the store answers resp
ReadSecretClearsToken ==
    /\ vc = "ok"
    /\ Alive
    /\ lastRead = NoRead
    /\ \E path \in Paths, key \in Keys, resp \in ReadResponses :
         lastRead' = [called |-> TRUE, path |-> path, key |-> key, resp |-> resp,
                      res |-> ReadSecretResult(c, path, key, resp)]
    /\ c' = [c EXCEPT !.vclientToken = ""]
    /\ UNCHANGED <<vc, started, ctor, pc, exit, ctxDone, timerLeft, timerCh, elapsed,
                   wake, token, ttl, should, trace>>

ReadSecret ==
    /\ vc = "ok"
    /\ Alive
    /\ lastRead = NoRead
    /\ \E path \in Paths, key \in Keys, resp \in ReadResponses :
         lastRead' = [called |-> TRUE, path |-> path, key |-> key, resp |-> resp,
                      res |-> ReadSecretResult(c, path, key, resp)]
    /\ UNCHANGED <<vc, c, started, ctor, pc, exit, ctxDone, timerLeft, timerCh, elapsed,
                   wake, token, ttl, should, trace>>

\* the caller has consumed the result and may call again
CallerDone ==
    /\ lastRead # NoRead
    /\ lastRead' = NoRead
    /\ UNCHANGED <<vc, c, started, ctor, pc, exit, ctxDone, timerLeft, timerCh, elapsed,
                   wake, token, ttl, should, trace>>

-----------------------------------------------------------------------------
Next ==
    \/ VaultClient
    \/ SelectEnter
    \/ TimeAdvance
    \/ Cancel
    \/ SelectResume
    \/ GetTokenReturn
    \/ RenewSelfReturn
    \/ ReadSecret
    \/ CallerDone

Spec == Init /\ [][Next]_vars

\* the renewal goroutine and its environment, with no caller of ReadSecret
NextRenewer ==
    \/ VaultClient
    \/ SelectEnter
    \/ TimeAdvance
    \/ Cancel
    \/ SelectResume
    \/ GetTokenReturn
    \/ RenewSelfReturn

SpecRenewer == Init /\ [][NextRenewer]_vars

\* the goroutine, once runnable, is scheduled, and the store answers every
\* call; the timer and the owner of ctx are under no obligation
SpecRenewerFair ==
    /\ SpecRenewer
    /\ WF_vars(SelectEnter)
    /\ WF_vars(SelectResume)
    /\ WF_vars(GetTokenReturn)
    /\ WF_vars(RenewSelfReturn)

\* the read path alone: the renewal goroutine is not scheduled
NextReader ==
    \/ VaultClient
    \/ ReadSecret
    \/ CallerDone

SpecReader == Init /\ [][NextReader]_vars

-----------------------------------------------------------------------------
(* Reading the history *)

Max(S) == CHOOSE x \in S : \A y \in S : y <= x

\* positions of the events named e
Idx(e) == {i \in DOMAIN trace : trace[i].e = e}

\* the calls the goroutine sends to the store
StoreCalls == {"lookup", "renew"}

NoStoreCallAfter(i) == \A j \in DOMAIN trace : j > i => trace[j].e \notin StoreCalls

\* the events of the goroutine itself (not of the timer or of ctx's owner)
LoopIdx == {i \in DOMAIN trace : trace[i].e \notin {"cancel", "expiry"}}

LastLoopEvent == IF LoopIdx = {} THEN "" ELSE trace[Max(LoopIdx)].e

\* no renewal call between the lookup that opened the tick of event i and i
NoRenewInTickOf(i) ==
    \A j \in DOMAIN trace :
        (j < i /\ trace[j].e = "renew") => \E k \in Idx("lookup") : j < k /\ k < i

-----------------------------------------------------------------------------
(* Claims about the renewal loop, under SpecRenewer *)

\* C1 as stated: once a RenewSelf call has failed, the goroutine issues no
\* further lookup and no further renewal call.
C1_StopsAfterRenewFailure ==
    \A i \in Idx("renewErr") : NoStoreCallAfter(i)

\* C1 amended: a failed RenewSelf does not stop the loop. The goroutine only
\* logs the error and goes back to the select, where it keeps polling.
C1_LoopSurvivesRenewFailure ==
    LastLoopEvent = "renewErr" => pc \in {"top", "wait"} /\ exit = ""

\* a failed renewal is followed, one polling period later, by a new lookup
\* and a new renewal call
C1_Witness ==
    \E i \in Idx("renewErr") : \E j \in Idx("renew") : j > i

\* C2 as stated: once a tick found the token not renewable, no later tick
\* performs a lookup or a renewal attempt.
C2_NotRenewableIsFatal ==
    \A i \in Idx("notRenewable") : NoStoreCallAfter(i)

\* C2 amended: a not-renewable token makes renewToken return the
\* TokenNotRenewable error without a renewal call, and the loop only logs it:
\* the goroutine goes back to the select and keeps polling.
C2_LoopSurvivesNotRenewable ==
    LastLoopEvent = "notRenewable" =>
        /\ pc \in {"top", "wait"}
        /\ exit = ""
        /\ NoRenewInTickOf(Len(trace) + 1)

\* a not-renewable tick is followed by a new lookup
C2_Witness ==
    \E i \in Idx("notRenewable") : \E j \in Idx("lookup") : j > i

\* C3: a failed lookup ends the loop on that tick, with no renewal call on
\* that tick and no store call afterwards.
C3_LookupFailureExits ==
    \A i \in Idx("lookupErr") :
        /\ pc = "done"
        /\ exit = "lookupErr"
        /\ NoRenewInTickOf(i)
        /\ NoStoreCallAfter(i)

\* the lookup of a second tick fails, after a renewal on the first
C3_Witness ==
    exit = "lookupErr" /\ Idx("renewOk") # {} /\ ctxDone

\* C4: the first tick that decodes a ttl >= threshold ends the run: no
\* renewal call on that tick, no store call afterwards.
C4_HealthyTickExits ==
    \A i \in Idx("healthy") :
        /\ pc = "done"
        /\ exit = "healthy"
        /\ ttl >= c.maxTokenTTL
        /\ NoRenewInTickOf(i)
        /\ NoStoreCallAfter(i)

\* the run ends on ttl = threshold, on a tick that follows a renewal
C4_Witness ==
    exit = "healthy" /\ ttl = c.maxTokenTTL /\ Idx("renewOk") # {}

C6_ShouldRenewIffBelowThreshold ==
    should # "unset" =>
        /\ ttl < c.maxTokenTTL => should = "true"
        /\ ttl >= c.maxTokenTTL => should = "false"

\* the decision at the boundary ttl = threshold, after a tick that renewed
C6_Witness ==
    should = "false" /\ ttl = c.maxTokenTTL /\ Idx("renewOk") # {}

\* C7: every RenewSelf call asks for renewTTLIncrement.
C7_RenewalRequestsIncrement ==
    \A i \in Idx("renew") : trace[i].n = c.renewTTLIncrement

\* a second renewal call, made on a ttl that differs from the increment
C7_Witness ==
    Cardinality(Idx("renew")) = 2 /\ pc = "renewSelf" /\ ttl # c.renewTTLIncrement

\* C8: renewToken on a token that is not renewable, or whose renewability
\* cannot be checked, returns the error without calling RenewSelf.
C8_NoRenewalCallUnlessRenewable ==
    (should = "true" /\ token.renewable # "true") =>
        /\ LastLoopEvent = (IF token.renewable = "false" THEN "notRenewable" ELSE "checkErr")
        /\ pc = "top"
        /\ NoRenewInTickOf(Len(trace) + 1)

\* renewToken has returned TokenNotRenewable
C8_Witness ==
    should = "true" /\ token.renewable = "false" /\ LastLoopEvent = "notRenewable"

-----------------------------------------------------------------------------
(* Claims about ReadSecret, under SpecReader *)

\* C9: ReadSecret(path, "") and ReadSecret(path, defaultSecretKey) return the
\* same value and error and read the same path, whatever the store answers.
C9_EmptyKeyIsDefaultKey ==
    (lastRead.called /\ lastRead.key \in {"", defaultSecretKey}) =>
        /\ lastRead.res = ReadSecretResult(c, lastRead.path, "", lastRead.resp)
        /\ lastRead.res = ReadSecretResult(c, lastRead.path, defaultSecretKey, lastRead.resp)

\* a call with the empty key returns the value stored under "data"
C9_Witness ==
    /\ lastRead.called
    /\ lastRead.key = ""
    /\ lastRead.res.err = NilErr
    /\ lastRead.res.data = "abc"

\* the payload the engine adapter extracts from the response of the last call
LastPayload == getData(c.engine, lastRead.resp.secret)

\* C10 as stated: when the read succeeds, the response is non-nil, the adapter
\* extracts a payload and the payload contains the key (with a value that is
\* not nil, which is how ReadSecret tests for the key), ReadSecret returns
\* that key's value with a nil error.
C10_ReturnsValueOfPresentKey ==
    (/\ lastRead.called
     /\ ~lastRead.resp.err
     /\ ~lastRead.resp.secret.nil
     /\ ~LastPayload.isNil
     /\ effectiveKey(lastRead.key) \in DOMAIN LastPayload.m
     /\ LastPayload.m[effectiveKey(lastRead.key)].t # "nil") =>
        /\ lastRead.res.err = NilErr
        /\ lastRead.res.data = LastPayload.m[effectiveKey(lastRead.key)].v

\* which of the three "nothing to read" cases a successful store read is:
\* a nil response, no payload extracted, or a payload without the key
SubCause(cl, key0, resp) ==
    IF resp.err THEN "none"
    ELSE IF resp.secret.nil THEN "nilResponse"
    ELSE IF getData(cl.engine, resp.secret).isNil THEN "noPayload"
    ELSE IF effectiveKey(key0) \notin DOMAIN getData(cl.engine, resp.secret).m THEN "noKey"
    ELSE "none"

\* C11: after a successful store read, a nil response, a response without
\* payload and a payload without the key all give the caller the empty string
\* and the same SecretNotFound error, carrying the path and the key.
C11_NotFoundCausesIndistinguishable ==
    (lastRead.called /\ SubCause(c, lastRead.key, lastRead.resp) # "none") =>
        /\ lastRead.res.data = ""
        /\ lastRead.res.err = NotFound(lastRead.path, effectiveKey(lastRead.key))
        /\ \A r \in ReadResponses :
              SubCause(c, lastRead.key, r) # "none" =>
                  /\ ReadSecretResult(c, lastRead.path, lastRead.key, r).err = lastRead.res.err
                  /\ ReadSecretResult(c, lastRead.path, lastRead.key, r).data = lastRead.res.data

\* a payload that holds another key than the requested one
C11_Witness ==
    /\ lastRead.called
    /\ SubCause(c, lastRead.key, lastRead.resp) = "noKey"
    /\ DOMAIN LastPayload.m # {}
    /\ lastRead.res.err.kind = "BackendSecretNotFound"

\* C12: a failed store read makes ReadSecret return the empty string and the
\* store's error, before the response is looked at: the engine adapter is not
\* invoked and no SecretNotFound error is built.
C12_StoreFailureFirst ==
    (lastRead.called /\ lastRead.resp.err) =>
        /\ lastRead.res.data = ""
        /\ lastRead.res.err = StoreErr
        /\ ~lastRead.res.adapter

\* the store read fails and hands back a response all the same
C12_Witness ==
    /\ lastRead.called
    /\ lastRead.resp.err
    /\ ~lastRead.resp.secret.nil
    /\ lastRead.res.err = StoreErr

\* C17 as stated: a ReadSecret invocation reads the store once, at its path,
\* and returns a non-nil error whenever the read failed or no usable value (a
\* string under the key) was found.
C17_OneReadNoSwallowedFailure ==
    lastRead.called =>
        /\ lastRead.res.reads = <<lastRead.path>>
        /\ (lastRead.resp.err \/ SubCause(c, lastRead.key, lastRead.resp) # "none"
            \/ MapGet(LastPayload.m, effectiveKey(lastRead.key)).t # "string")
           => lastRead.res.err.kind \in {"store", "BackendSecretNotFound"}

-----------------------------------------------------------------------------
(* Further claims about the renewal loop *)

\* C13 as stated: a ttl field that cannot be decoded as an integer ends the
\* loop on that tick, with no threshold test and no renewal call, and leaves
\* the host process running, ReadSecret callable.
C13_TTLDecodeErrorEndsLoopOnly ==
    (~token.nil /\ token.ttlField.kind # "int") =>
        /\ pc = "done"
        /\ exit = "ttlErr"
        /\ should = "unset"
        /\ NoRenewInTickOf(Len(trace) + 1)
        /\ Alive
        /\ ENABLED ReadSecret

\* lookups issued after ctx was cancelled
LookupsAfterCancel ==
    {j \in Idx("lookup") : \E i \in Idx("cancel") : i < j}

\* C14: once ctx is cancelled the loop ends, and it runs the timer case at
\* most once after the cancellation.
C14_CancelledLoopTerminates ==
    /\ [](Cardinality(LookupsAfterCancel) <= 1)
    /\ (ctxDone /\ pc # "none") ~> (pc \in {"done", "panic"})

\* the timer had expired when ctx was cancelled: one tick ran after the
\* cancellation, then the loop left through the Done case
C14_Witness ==
    /\ Cardinality(LookupsAfterCancel) = 1
    /\ pc = "done"
    /\ exit = "cancelled"

\* C15: after a successful renewal the goroutine waits again; the store gets
\* no lookup or renewal call before a timer started after the renewal has run
\* its full period.
C15_FullPeriodAfterRenewal ==
    /\ LastLoopEvent = "renewOk" => pc \in {"top", "wait"}
    /\ \A i \in Idx("renewOk") : \A j \in DOMAIN trace :
          (j > i /\ trace[j].e \in StoreCalls) =>
              \E k \in Idx("expiry") : i < k /\ k < j /\ trace[k].n = c.tokenPollingPeriod

\* a lookup follows a successful renewal, under the longest period
C15_Witness ==
    /\ \E i \in Idx("renewOk") : \E j \in Idx("lookup") : j > i
    /\ c.tokenPollingPeriod = MaxPeriod

IsLoopEv(ev) == ev.e \notin {"cancel", "expiry"}

\* what the goroutine did after position i of the history
EventsAfter(i) == SelectSeq(SubSeq(trace, i + 1, Len(trace)), IsLoopEv)

TickOutcomes == {"lookupErr", "panic", "ttlErr", "healthy", "notRenewable", "checkErr", "renew"}

\* C16: a cancellation during LookupSelf or RenewSelf does not abort the
\* tick. The tick goes on as the store's answers decide, a renewal call runs
\* to its outcome, and the goroutine leaves through the Done case only at the
\* next select.
C16_CancelDoesNotAbortTick ==
    \A i \in Idx("cancel") :
        LET a == EventsAfter(i) IN
        /\ trace[i].n \in {2, 3} => \A k \in DOMAIN a : a[k].e # "lookup"
        /\ \A k \in DOMAIN a :
              a[k].e = "shutdown" =>
                  /\ k = Len(a)
                  /\ pc = "done"
                  /\ exit = "cancelled"
        /\ trace[i].n = 3 =>
              /\ Len(a) <= 2
              /\ Len(a) = 0 => pc = "renewSelf"
              /\ Len(a) >= 1 => a[1].e \in {"renewOk", "renewErr"}
              /\ Len(a) = 1 => pc = "top"
              /\ Len(a) = 2 => a[2].e = "shutdown"
        /\ trace[i].n = 2 =>
              /\ Len(a) = 0 => pc = "getToken"
              /\ Len(a) >= 1 => a[1].e \in TickOutcomes
              /\ (Len(a) >= 1 /\ ~token.nil /\ should = "true" /\ token.renewable = "true")
                    => a[1].e = "renew"
              /\ (Len(a) >= 2 /\ a[1].e = "renew") => a[2].e \in {"renewOk", "renewErr"}

\* ctx is cancelled during LookupSelf; the tick still starts a renewal call,
\* which succeeds, and the goroutine exits at the next select
C16_Witness ==
    \E i \in Idx("cancel") :
        /\ trace[i].n = 2
        /\ Len(EventsAfter(i)) = 3
        /\ EventsAfter(i)[1].e = "renew"
        /\ EventsAfter(i)[2].e = "renewOk"
        /\ EventsAfter(i)[3].e = "shutdown"

\* C18: however ReadSecret calls interleave with the goroutine's steps, a
\* ReadSecret call changes neither the client (its token, threshold, period,
\* increment and engine) nor any of the goroutine's state, and no step other
\* than the renewal call's return changes the client's token.
C18_ReadSecretFrame ==
    /\ [][(lastRead' # lastRead) =>
            UNCHANGED <<clientVars, loopVars, ctxDone, trace>>]_vars
    /\ [][(c # NoClient /\ c'.vclientToken # c.vclientToken) =>
            (pc = "renewSelf" /\ pc' # pc)]_vars

\* a ReadSecret call made while the goroutine's renewal call is in flight
C18_Witness ==
    /\ lastRead.called
    /\ pc = "renewSelf"
    /\ c.vclientToken = VaultToken
    /\ LastLoopEvent = "renew"

\* C19: RenewSelf is called only on a tick whose lookup succeeded, whose ttl
\* decoded and is below the threshold and whose token is renewable; a tick
\* calls it at most once; the store gets no call before a full polling period
\* has passed.
C19_RenewalOnlyWhenDue ==
    /\ pc = "renewSelf" =>
          /\ ~token.nil
          /\ token.ttlField.kind = "int"
          /\ ttl = token.ttlField.n
          /\ ttl < c.maxTokenTTL
          /\ token.renewable = "true"
          /\ LastLoopEvent = "renew"
    /\ \A j \in Idx("renew") :
          \E k \in Idx("lookup") :
              /\ k < j
              /\ \A m \in DOMAIN trace : (k < m /\ m < j) => trace[m].e \notin StoreCalls
    /\ \A j \in DOMAIN trace :
          trace[j].e = "lookup" =>
              /\ j > 1
              /\ Cardinality({k \in Idx("expiry") : k < j /\ trace[k].n = c.tokenPollingPeriod})
                    >= Cardinality({k \in Idx("lookup") : k <= j})

\* a renewal call at ttl = threshold - 1, on the tick after one that found
\* the token not renewable
C19_Witness ==
    /\ pc = "renewSelf"
    /\ ttl = c.maxTokenTTL - 1
    /\ Idx("notRenewable") # {}

\* C20: vaultClient starts the renewal goroutine once, after NewClient, Health
\* and newEngine all succeeded; when one of them fails it returns a nil client
\* and starts nothing.
C20_RenewerStartedOnceAfterConstruction ==
    /\ started <= 1
    /\ pc # "none" => started = 1
    /\ vc = "init" => (started = 0 /\ c = NoClient /\ ~ctor.called)
    /\ vc = "ok" =>
          /\ started = 1
          /\ c # NoClient
          /\ ctor.called /\ ctor.newClientOk /\ ctor.healthOk /\ ~ctor.engineErr
    /\ vc = "failed" =>
          /\ started = 0
          /\ pc = "none"
          /\ c = NoClient
          /\ \A i \in DOMAIN trace : ~IsLoopEv(trace[i])
          /\ ctor.called /\ (~ctor.newClientOk \/ ~ctor.healthOk \/ ctor.engineErr)

\* the goroutine vaultClient started has run a tick
C20_Witness ==
    vc = "ok" /\ started = 1 /\ NumLookups = 1 /\ pc = "renewSelf"

====
